---- MODULE Spec2Model ----
(***************************************************************************)
(* Model of tools/emulator/system/camera/EmulatedCameraDevice.cpp: the     *)
(* emulated camera device (state machine, frame buffer lifecycle) and its  *)
(* worker thread controller (self-pipe stop protocol).                     *)
(*                                                                         *)
(* Three flows of control are modelled: the owner (calls the lifecycle     *)
(* API, one call at a time), a reader (calls getCurrentFrame and           *)
(* getCurrentPreviewFrame from another thread) and the worker thread       *)
(* (android::Thread running readyToRun once and then threadLoop).          *)
(*                                                                         *)
(* Memory the code does not initialise is indeterminate: the fields the    *)
(* constructor leaves out hold any value, and so do the bytes of a block   *)
(* fresh from operator new[].  A read through the null pointer ends the    *)
(* process; a read of memory that is not an allocated block of the size    *)
(* read either ends the process or yields indeterminate bytes.  The        *)
(* destructor ends the life of the object.                                 *)
(***************************************************************************)
EXTENDS Integers, Sequences, FiniteSets, TLC

(***************************************************************************)
(* Bounds of the model.                                                    *)
(***************************************************************************)
\* frame widths passed to startCapturing are 1..MaxWidth
MaxWidth == 2
\* number of heap blocks the allocator can hand out at the same time
MaxBufs == 2
\* number of pipes (descriptor pairs) the process can have open
MaxPipes == 2
\* a frame width whose pixel count times 12 does not fit an int: with height
\* 2, width * height * 12 = 2^32 + 8
WrapWidth == 178956971
\* frame stamps the loop body writes are 1..MaxStamp
MaxStamp == 1
\* messages a pipe holds before a write to it blocks
MaxPipeMsgs == 2
\* representative inputs: a pixel format the switch does not know, the
\* descriptor a device passes to Select() to wait for data, and a nonzero
\* Select() timeout in microseconds
PIX_FMT_OTHER == 0
DATA_FD == 100
SOME_TIMEOUT == 1000
\* a control message value that is not THREAD_STOP
MSG_OTHER == 1
\* a value an int field that was never assigned can hold, besides 0
UNINIT_INT == 1431655765

(***************************************************************************)
(* Program constants.                                                      *)
(***************************************************************************)
NO_ERROR == 0
EINVAL == 22
ENOMEM == 12
\* error a device-specific hook reports
EIO == 5
\* errno of a failed pipe()
EMFILE == 24
\* errno of a failed write()
EPIPE == 32
\* android::INVALID_OPERATION (-ENOSYS), returned by Thread::run on a running thread
INVALID_OPERATION == -38
\* fourcc 'YV12'
V4L2_PIX_FMT_YVU420 == 842094169
\* ControlMessage THREAD_STOP
THREAD_STOP == 0
NULL == 0
\* closed descriptor
FD_CLOSED == -1
\* an indeterminate byte: a byte of a heap block that was not written since
\* operator new[] returned the block, or a byte of memory that is not an
\* allocated block; it holds whatever the memory held, any value
INDETERMINATE == -1

Widths == 1..MaxWidth
Heights == {2}
PixFmts == {V4L2_PIX_FMT_YVU420, PIX_FMT_OTHER}
BufIds == 1..MaxBufs
PipeIds == 1..MaxPipes
\* byte values: 1..MaxStamp are frame stamps
Bytes == 0..MaxStamp
\* the values a field the constructor does not initialise can hold
IndeterminateInts == {0, UNINIT_INT}

VARIABLES
    \* ---- EmulatedCameraDevice fields
    mState,            \* ECDS_CONSTRUCTED / ECDS_INITIALIZED / ECDS_CAPTURING
    mWorkerThread,     \* NULL or the id of the WorkerThread object
    mFrameWidth, mFrameHeight, mPixelFormat, mTotalPixels, mFrameBufferSize,
    mCurrentFrame,     \* NULL or the heap block the pointer holds
    mFrameU, mFrameV,  \* offsets of the U and V panes from mCurrentFrame
    mObjectLock,       \* "free" or the thread that holds the mutex
    \* ---- heap
    live,              \* heap blocks currently allocated
    content,           \* content[b]: bytes of block b (<<>> when not allocated)
    nWorkerObjs,       \* WorkerThread objects constructed so far (0 or 1)
    \* ---- WorkerThread fields and android::Thread state
    mThreadControl, mControlFD,
    mRunning, mExitPending, mStatus,
    \* ---- descriptors
    openW, openR,      \* pipes whose write / read end is open
    pipeBuf,           \* pipeBuf[p]: messages written to pipe p and not read yet
    \* ---- owner thread
    opc, ocall, oargs, ores, res, pre,
    stRes,             \* <<status>> the last stopThread() returned, <<>> since the last start
    \* ---- reader thread
    rpc, rcall, rres, out,
    rsrc,              \* the values of mCurrentFrame the reader has read in this call
    rlen,              \* <<mFrameBufferSize>> once the reader has read it for memcpy
    rwidth, rheight,   \* <<mFrameWidth>>, <<mFrameHeight>> once read for the converter
    \* ---- worker thread
    wpc, device, thread_fds, selFd, selTimeout, selRes, loopResult,
    \* ---- locals of the worker's Select() call, until the loop body has
    \* taken its result (<<>>: not assigned)
    selectRet,         \* <<int res>> after select(), line 301
    fds,               \* the descriptors set in fds after select()
    readRet,           \* <<int res>> after read(), line 312
    readMsg            \* <<ControlMessage msg>> after read()

devVars == <<mState, mWorkerThread, mFrameWidth, mFrameHeight, mPixelFormat,
             mTotalPixels, mFrameBufferSize, mCurrentFrame, mFrameU, mFrameV>>
heapVars == <<live, content, nWorkerObjs>>
thrVars == <<mThreadControl, mControlFD, mRunning, mExitPending, mStatus>>
fdVars == <<openW, openR, pipeBuf>>
ownerVars == <<opc, ocall, oargs, ores, res, pre, stRes>>
readerVars == <<rpc, rcall, rres, out, rsrc, rlen, rwidth, rheight>>
selLocals == <<selectRet, fds, readRet, readMsg>>
workerVars == <<wpc, device, thread_fds, selFd, selTimeout, selRes, loopResult,
                selLocals>>
vars == <<devVars, heapVars, thrVars, fdVars, ownerVars, readerVars,
          workerVars, mObjectLock>>

(***************************************************************************)
(* Helpers.                                                                *)
(***************************************************************************)
\* C++ int division by a positive divisor truncates toward zero
DivTrunc(a, b) == IF a >= 0 \/ a % b = 0 THEN a \div b ELSE (a \div b) + 1

\* the range of int
MaxInt32 == 2147483647
MinInt32 == (-MaxInt32) - 1

\* int addition as the target computes it: the sum modulo 2^32, read as a
\* two's complement value.  (Signed overflow is undefined in C++; the add
\* and imul instructions the build emits wrap.)
Int32Add(a, b) ==
    IF a >= 0 /\ b >= 0 /\ a > MaxInt32 - b THEN (a + MinInt32) + (b + MinInt32)
    ELSE IF a < 0 /\ b < 0 /\ a < MinInt32 - b THEN (a - MinInt32) + (b - MinInt32)
    ELSE a + b

\* int negation modulo 2^32
Int32Neg(a) == IF a = MinInt32 THEN MinInt32 ELSE -a

\* int multiplication modulo 2^32, by doubling
RECURSIVE Int32Mul(_, _)
Int32Mul(a, b) ==
    IF b = 0 THEN 0
    ELSE IF b = MinInt32 THEN (IF a % 2 = 0 THEN 0 ELSE MinInt32)
    ELSE IF b < 0 THEN Int32Mul(Int32Neg(a), -b)
    ELSE Int32Add(IF b % 2 = 1 THEN a ELSE 0, Int32Mul(Int32Add(a, a), b \div 2))

\* mutant of FrameBufferSize: the bits-per-pixel ratio is reduced before the
\* multiplication, width * height * (12 / 8)
FrameBufferSize_DivFirst(width, height) ==
    Int32Mul(Int32Mul(width, height), DivTrunc(12, 8))

\* line 84: (width * height * 12) / 8
FrameBufferSize(width, height) ==
    DivTrunc(Int32Mul(Int32Mul(width, height), 12), 8)

\* isInitialized(): the worker thread object exists and the state is past constructed
isInitialized == mWorkerThread # NULL /\ mState # "ECDS_CONSTRUCTED"

\* isCapturing()
isCapturing == mState = "ECDS_CAPTURING"

\* the device fields a caller can observe, as a record
DeviceSnapshot ==
    [state |-> mState, worker |-> mWorkerThread, width |-> mFrameWidth,
     height |-> mFrameHeight, format |-> mPixelFormat, pixels |-> mTotalPixels,
     size |-> mFrameBufferSize, frame |-> mCurrentFrame, live |-> live]

\* operator new: the lowest free heap block
NewBlock == CHOOSE b \in BufIds \ live : \A c \in BufIds \ live : b <= c

\* pipe(): the lowest pipe whose two descriptors are both free
FreePipes == PipeIds \ (openW \cup openR)
NewPipe == CHOOSE p \in FreePipes : \A q \in FreePipes : p <= q

\* a block of n bytes all equal to v
Fill(n, v) == [i \in 1..n |-> v]

\* memcpy(dst, src, n) when the copy completes: a byte inside an allocated
\* block is copied as it is (an indeterminate byte stays indeterminate), a
\* byte read outside of one is whatever the memory holds there
Memcpy(src, n) ==
    [i \in 1..n |->
        IF src \in live /\ i <= Len(content[src])
        THEN content[src][i] ELSE INDETERMINATE]

\* a read of n bytes at src faults (SIGSEGV): always for the null pointer,
\* possibly for memory that is not an allocated block of at least n bytes
MemcpyMustFault(src) == src = NULL
MemcpyMayFault(src, n) == IF src \in live THEN n > Len(content[src]) ELSE TRUE

\* one byte at offset off (0-based) of the bytes read
ByteAt(bytes, off) == bytes[off + 1]

\* the number of frame bytes YV12ToRGB32 reads for a width x height frame
YV12BytesRead(width, height) ==
    width * height + (width * height) \div 4
    + ((height - 1) \div 2) * (width \div 2) + ((width - 1) \div 2) + 1

\* YV12ToRGB32(frame, buffer, width, height): one pixel per luma byte, built
\* from its luma sample and the chroma samples of its 2x2 quad
YV12ToRGB32(bytes, width, height) ==
    [i \in 1..(width * height) |->
        LET x == (i - 1) % width
            y == (i - 1) \div width
            c == (y \div 2) * (width \div 2) + (x \div 2)
        IN  <<ByteAt(bytes, i - 1),
              ByteAt(bytes, width * height + c),
              ByteAt(bytes, width * height + (width * height) \div 4 + c)>>]

\* the process has not been killed by a fault
ProcessAlive == rpc # "segv"

\* the device object has not been destroyed
ObjectAlive == opc # "destroyed"

(***************************************************************************)
(* Initial state: the constructor (lines 35-42) and the WorkerThread       *)
(* constructor have run; nothing is allocated, no thread runs.  The        *)
(* constructor does not set the cached frame fields and the pane           *)
(* pointers: they hold what the object's memory held.                      *)
(***************************************************************************)
\* the fields the constructor leaves unset
UninitializedFields ==
    /\ mFrameWidth \in IndeterminateInts /\ mFrameHeight \in IndeterminateInts
    /\ mPixelFormat \in IndeterminateInts
    /\ mTotalPixels \in IndeterminateInts /\ mFrameBufferSize \in IndeterminateInts
    /\ mFrameU \in IndeterminateInts /\ mFrameV \in IndeterminateInts

\* everything but the device's fields and the heap: no thread, no
\* descriptor, no call in progress
NothingRunning ==
    /\ mObjectLock = "free"
    /\ mThreadControl = FD_CLOSED /\ mControlFD = FD_CLOSED
    /\ mRunning = FALSE /\ mExitPending = FALSE /\ mStatus = NO_ERROR
    /\ openW = {} /\ openR = {}
    /\ pipeBuf = [p \in PipeIds |-> <<>>]
    /\ opc = "idle" /\ ocall = "none" /\ oargs = <<>> /\ ores = NO_ERROR
    /\ res = NO_ERROR /\ stRes = <<>>
    /\ rpc = "idle" /\ rcall = "none" /\ rres = NO_ERROR /\ out = <<>>
    /\ rsrc = <<>> /\ rlen = <<>> /\ rwidth = <<>> /\ rheight = <<>>
    /\ wpc = "none" /\ device \in {"base", "derived"}
    /\ thread_fds = FD_CLOSED /\ selFd = FD_CLOSED /\ selTimeout = 0
    /\ selRes = "NONE" /\ loopResult = FALSE
    /\ selectRet = <<>> /\ fds = {} /\ readRet = <<>> /\ readMsg = <<>>

\* lines 35-42
Constructed ==
    /\ mState = "ECDS_CONSTRUCTED"
    /\ mWorkerThread = NULL
    /\ mCurrentFrame = NULL
    /\ live = {} /\ content = [b \in BufIds |-> <<>>]
    /\ nWorkerObjs = 0

Init ==
    /\ Constructed
    /\ UninitializedFields
    /\ NothingRunning
    /\ pre = DeviceSnapshot

(***************************************************************************)
(* Owner thread: call / return bookkeeping.  A call records its name, its  *)
(* arguments and the device as it was on entry; the return value stays     *)
(* visible in ores until the owner goes back to idle.                      *)
(***************************************************************************)
OwnerEnter(call, args) ==
    /\ opc = "idle"
    /\ ocall' = call /\ oargs' = args /\ pre' = DeviceSnapshot

OwnerReturn(value) == opc' = "ret" /\ ores' = value

OwnerIdle ==
    /\ ProcessAlive
    /\ opc = "ret"
    /\ opc' = "idle" /\ ocall' = "none" /\ oargs' = <<>> /\ ores' = NO_ERROR
    /\ res' = NO_ERROR /\ pre' = DeviceSnapshot
    /\ UNCHANGED <<devVars, heapVars, thrVars, fdVars, stRes, readerVars,
                   workerVars, mObjectLock>>

(***************************************************************************)
(* Device-specific hooks (pure virtual in the base class).  A hook reports *)
(* a status; a successful start makes the device capturing, a successful   *)
(* stop ends capturing.  A hook called on a device that is not initialized *)
(* refuses with EINVAL.                                                    *)
(***************************************************************************)
startDeviceResults == IF isInitialized THEN {NO_ERROR, EIO} ELSE {EINVAL}
stopDeviceResults == IF isInitialized THEN {NO_ERROR, EIO} ELSE {EINVAL}

(***************************************************************************)
(* Initialize(), lines 55-73.                                              *)
(***************************************************************************)
\* mutant of InitializeGuard: the test for an initialized device is gone
InitializeGuard_Never == FALSE

\* line 57
InitializeGuard == isInitialized

Initialize ==
    /\ ProcessAlive
    /\ OwnerEnter("Initialize", <<>>)
    /\ IF InitializeGuard
       THEN /\ OwnerReturn(NO_ERROR)
            /\ UNCHANGED <<mState, mWorkerThread, nWorkerObjs>>
       ELSE \E allocated \in BOOLEAN :
              IF allocated
              THEN /\ nWorkerObjs' = nWorkerObjs + 1
                   /\ mWorkerThread' = nWorkerObjs + 1
                   /\ mState' = "ECDS_INITIALIZED"
                   /\ OwnerReturn(NO_ERROR)
              ELSE /\ mWorkerThread' = NULL
                   /\ OwnerReturn(ENOMEM)
                   /\ UNCHANGED <<mState, nWorkerObjs>>
    /\ UNCHANGED <<mFrameWidth, mFrameHeight, mPixelFormat, mTotalPixels,
                   mFrameBufferSize, mCurrentFrame, mFrameU, mFrameV,
                   live, content, thrVars, fdVars, res, stRes, readerVars,
                   workerVars, mObjectLock>>

(***************************************************************************)
(* startCapturing(width, height, pix_fmt), lines 75-123.                   *)
(***************************************************************************)
\* mutant of FormatSupported: the switch has lost its default branch
FormatSupported_AcceptsAll(pix_fmt) == TRUE

\* lines 82-91: the formats the switch accepts
FormatSupported(pix_fmt) == pix_fmt = V4L2_PIX_FMT_YVU420

\* lines 82-97: validate the format, compute the size, cache the frame info
StartCapturing_Validate(width, height, pix_fmt) ==
    /\ ProcessAlive
    /\ OwnerEnter("startCapturing", <<width, height, pix_fmt>>)
    /\ IF FormatSupported(pix_fmt)
       THEN /\ mFrameBufferSize' = FrameBufferSize(width, height)
            /\ mFrameWidth' = width
            /\ mFrameHeight' = height
            /\ mPixelFormat' = pix_fmt
            /\ mTotalPixels' = Int32Mul(width, height)
            /\ opc' = "sc_alloc"
            /\ UNCHANGED ores
       ELSE /\ OwnerReturn(EINVAL)
            /\ UNCHANGED <<mFrameBufferSize, mFrameWidth, mFrameHeight,
                           mPixelFormat, mTotalPixels>>
    /\ UNCHANGED <<mState, mWorkerThread, mCurrentFrame, mFrameU, mFrameV,
                   heapVars, thrVars, fdVars, res, stRes, readerVars,
                   workerVars, mObjectLock>>

\* lines 100-107: allocate the framebuffer, compute the U and V panes
StartCapturing_Alloc ==
    /\ ProcessAlive
    /\ opc = "sc_alloc"
    /\ \E allocated \in BOOLEAN :
         IF allocated /\ mFrameBufferSize >= 0 /\ BufIds \ live # {}
         THEN /\ mCurrentFrame' = NewBlock
              /\ live' = live \cup {NewBlock}
              /\ content' = [content EXCEPT ![NewBlock] =
                                  Fill(mFrameBufferSize, INDETERMINATE)]
              /\ mFrameU' = mTotalPixels
              /\ mFrameV' = mTotalPixels + DivTrunc(mTotalPixels, 4)
              /\ opc' = "sc_start"
              /\ UNCHANGED ores
         ELSE /\ mCurrentFrame' = NULL
              /\ OwnerReturn(ENOMEM)
              /\ UNCHANGED <<live, content, mFrameU, mFrameV>>
    /\ UNCHANGED <<mState, mWorkerThread, mFrameWidth, mFrameHeight,
                   mPixelFormat, mTotalPixels, mFrameBufferSize, nWorkerObjs,
                   thrVars, fdVars, ocall, oargs, res, pre, stRes, readerVars,
                   workerVars, mObjectLock>>

\* lines 110-117: call the start hook
StartCapturing_StartDevice ==
    /\ ProcessAlive
    /\ opc = "sc_start"
    /\ \E r \in startDeviceResults :
         /\ res' = r
         /\ IF r = NO_ERROR
            THEN /\ mState' = "ECDS_CAPTURING"
                 /\ OwnerReturn(r)
            ELSE /\ opc' = "sc_delete"
                 /\ UNCHANGED <<mState, ores>>
    /\ UNCHANGED <<mWorkerThread, mFrameWidth, mFrameHeight, mPixelFormat,
                   mTotalPixels, mFrameBufferSize, mCurrentFrame, mFrameU,
                   mFrameV, heapVars, thrVars, fdVars, ocall, oargs, pre,
                   stRes, readerVars, workerVars, mObjectLock>>

\* line 118: delete[] mCurrentFrame
StartCapturing_Delete ==
    /\ ProcessAlive
    /\ opc = "sc_delete"
    /\ live' = live \ {mCurrentFrame}
    /\ content' = [b \in BufIds |-> IF b = mCurrentFrame THEN <<>> ELSE content[b]]
    /\ opc' = "sc_null"
    /\ UNCHANGED <<devVars, nWorkerObjs, thrVars, fdVars, ocall, oargs, ores,
                   res, pre, stRes, readerVars, workerVars, mObjectLock>>

\* lines 119-122: mCurrentFrame = NULL; return res
StartCapturing_Null ==
    /\ ProcessAlive
    /\ opc = "sc_null"
    /\ mCurrentFrame' = NULL
    /\ OwnerReturn(res)
    /\ UNCHANGED <<mState, mWorkerThread, mFrameWidth, mFrameHeight,
                   mPixelFormat, mTotalPixels, mFrameBufferSize, mFrameU,
                   mFrameV, heapVars, thrVars, fdVars, ocall, oargs, res, pre,
                   stRes, readerVars, workerVars, mObjectLock>>

(***************************************************************************)
(* stopCapturing(), lines 125-140.                                         *)
(***************************************************************************)
\* mutant of StopCapturing_Releases: the buffer is released whatever the
\* stop hook returned
StopCapturing_Releases_Always(r) == mCurrentFrame # NULL

\* lines 131 and 133: the buffer is released when the hook succeeded and the
\* pointer is set
StopCapturing_Releases(r) == r = NO_ERROR /\ mCurrentFrame # NULL

\* lines 130-133: call the stop hook, look at the buffer pointer
StopCapturing_StopDevice ==
    /\ ProcessAlive
    /\ OwnerEnter("stopCapturing", <<>>)
    /\ \E r \in stopDeviceResults :
         /\ res' = r
         /\ mState' = IF r = NO_ERROR /\ isCapturing
                      THEN "ECDS_INITIALIZED" ELSE mState
         /\ IF StopCapturing_Releases(r)
            THEN opc' = "st_delete" /\ UNCHANGED ores
            ELSE OwnerReturn(r)
    /\ UNCHANGED <<mWorkerThread, mFrameWidth, mFrameHeight, mPixelFormat,
                   mTotalPixels, mFrameBufferSize, mCurrentFrame, mFrameU,
                   mFrameV, heapVars, thrVars, fdVars, stRes, readerVars,
                   workerVars, mObjectLock>>

\* line 134: delete[] mCurrentFrame
StopCapturing_Delete ==
    /\ ProcessAlive
    /\ opc = "st_delete"
    /\ live' = live \ {mCurrentFrame}
    /\ content' = [b \in BufIds |-> IF b = mCurrentFrame THEN <<>> ELSE content[b]]
    /\ opc' = "st_null"
    /\ UNCHANGED <<devVars, nWorkerObjs, thrVars, fdVars, ocall, oargs, ores,
                   res, pre, stRes, readerVars, workerVars, mObjectLock>>

\* lines 135-139: mCurrentFrame = NULL; return res
StopCapturing_Null ==
    /\ ProcessAlive
    /\ opc = "st_null"
    /\ mCurrentFrame' = NULL
    /\ OwnerReturn(res)
    /\ UNCHANGED <<mState, mWorkerThread, mFrameWidth, mFrameHeight,
                   mPixelFormat, mTotalPixels, mFrameBufferSize, mFrameU,
                   mFrameV, heapVars, thrVars, fdVars, ocall, oargs, res, pre,
                   stRes, readerVars, workerVars, mObjectLock>>

(***************************************************************************)
(* Reader thread: getCurrentFrame(buffer), lines 142-155, and              *)
(* getCurrentPreviewFrame(buffer), lines 157-177.  The Autolock is taken   *)
(* on entry and released on every return.  The owner writes the fields     *)
(* these functions read without taking the lock, so every read of a field  *)
(* is a step of its own.  A read that faults kills the process: no thread  *)
(* takes a step after it.                                                  *)
(***************************************************************************)
\* lines 146 and 161: the precondition both reads test under the lock
FrameReadable == isCapturing /\ mCurrentFrame # NULL

\* the reader returns status with the caller's buffer untouched
ReaderFails(status) ==
    /\ rres' = status /\ rpc' = "ret" /\ mObjectLock' = "free"
    /\ rsrc' = <<>>
    /\ UNCHANGED out

\* the argument mCurrentFrame of the copy: read from the object again, or
\* the value the test of line 146 / 161 read, which the build may have kept
\* in a register
FrameArgument == {mCurrentFrame, rsrc[1]}

\* lines 144-146: lock; the left operand !isCapturing() reads mState
GetCurrentFrame_Check ==
    /\ ProcessAlive /\ ObjectAlive
    /\ rpc = "idle" /\ mObjectLock = "free"
    /\ rcall' = "getCurrentFrame"
    /\ IF ~isCapturing
       THEN /\ rres' = EINVAL /\ rpc' = "ret"
            /\ UNCHANGED mObjectLock
       ELSE /\ rpc' = "gf_frame" /\ mObjectLock' = "reader"
            /\ UNCHANGED rres
    /\ UNCHANGED <<devVars, heapVars, thrVars, fdVars, ownerVars, out, rsrc,
                   rlen, rwidth, rheight, workerVars>>

\* lines 146-150: the right operand mCurrentFrame == NULL reads the pointer
GetCurrentFrame_CheckFrame ==
    /\ ProcessAlive
    /\ rpc = "gf_frame"
    /\ IF mCurrentFrame = NULL
       THEN ReaderFails(EINVAL)
       ELSE /\ rpc' = "gf_copy" /\ rsrc' = <<mCurrentFrame>>
            /\ UNCHANGED <<rres, out, mObjectLock>>
    /\ UNCHANGED <<devVars, heapVars, thrVars, fdVars, ownerVars, rcall, rlen,
                   rwidth, rheight, workerVars>>

\* line 152: the memcpy argument mCurrentFrame
GetCurrentFrame_LoadFrame ==
    /\ ProcessAlive
    /\ rpc = "gf_copy" /\ Len(rsrc) = 1
    /\ \E frame \in FrameArgument : rsrc' = <<rsrc[1], frame>>
    /\ UNCHANGED <<devVars, heapVars, thrVars, fdVars, ownerVars, rpc, rcall,
                   rres, out, rlen, rwidth, rheight, workerVars, mObjectLock>>

\* line 152: the memcpy argument mFrameBufferSize is read from the object
\* (the two arguments are evaluated in either order)
GetCurrentFrame_LoadSize ==
    /\ ProcessAlive
    /\ rpc = "gf_copy" /\ rlen = <<>>
    /\ rlen' = <<mFrameBufferSize>>
    /\ UNCHANGED <<devVars, heapVars, thrVars, fdVars, ownerVars, rpc, rcall,
                   rres, out, rsrc, rwidth, rheight, workerVars, mObjectLock>>

\* lines 152-154: memcpy(buffer, mCurrentFrame, mFrameBufferSize); return
GetCurrentFrame_Copy ==
    /\ ProcessAlive
    /\ rpc = "gf_copy" /\ Len(rsrc) = 2 /\ rlen # <<>>
    /\ \/ /\ ~MemcpyMustFault(rsrc[2])
          /\ out' = Memcpy(rsrc[2], rlen[1])
          /\ rres' = NO_ERROR /\ rpc' = "ret" /\ mObjectLock' = "free"
       \/ /\ MemcpyMayFault(rsrc[2], rlen[1])
          /\ rpc' = "segv"
          /\ UNCHANGED <<out, rres, mObjectLock>>
    /\ rsrc' = <<>> /\ rlen' = <<>>
    /\ UNCHANGED <<devVars, heapVars, thrVars, fdVars, ownerVars, rcall,
                   rwidth, rheight, workerVars>>

\* lines 159-161: lock; the left operand !isCapturing() reads mState
GetCurrentPreviewFrame_Check ==
    /\ ProcessAlive /\ ObjectAlive
    /\ rpc = "idle" /\ mObjectLock = "free"
    /\ rcall' = "getCurrentPreviewFrame"
    /\ IF ~isCapturing
       THEN /\ rres' = EINVAL /\ rpc' = "ret"
            /\ UNCHANGED mObjectLock
       ELSE /\ rpc' = "gp_frame" /\ mObjectLock' = "reader"
            /\ UNCHANGED rres
    /\ UNCHANGED <<devVars, heapVars, thrVars, fdVars, ownerVars, out, rsrc,
                   rlen, rwidth, rheight, workerVars>>

\* lines 161-165: the right operand mCurrentFrame == NULL reads the pointer
GetCurrentPreviewFrame_CheckFrame ==
    /\ ProcessAlive
    /\ rpc = "gp_frame"
    /\ IF mCurrentFrame = NULL
       THEN ReaderFails(EINVAL)
       ELSE /\ rpc' = "gp_format" /\ rsrc' = <<mCurrentFrame>>
            /\ UNCHANGED <<rres, out, mObjectLock>>
    /\ UNCHANGED <<devVars, heapVars, thrVars, fdVars, ownerVars, rcall, rlen,
                   rwidth, rheight, workerVars>>

\* lines 168-176: switch (mPixelFormat) reads the format
GetCurrentPreviewFrame_Format ==
    /\ ProcessAlive
    /\ rpc = "gp_format"
    /\ IF mPixelFormat = V4L2_PIX_FMT_YVU420
       THEN /\ rpc' = "gp_convert"
            /\ UNCHANGED <<rres, out, rsrc, mObjectLock>>
       ELSE ReaderFails(EINVAL)
    /\ UNCHANGED <<devVars, heapVars, thrVars, fdVars, ownerVars, rcall, rlen,
                   rwidth, rheight, workerVars>>

\* line 170: the converter's argument mCurrentFrame (the arguments are
\* evaluated in any order)
GetCurrentPreviewFrame_LoadFrame ==
    /\ ProcessAlive
    /\ rpc = "gp_convert" /\ Len(rsrc) = 1
    /\ \E frame \in FrameArgument : rsrc' = <<rsrc[1], frame>>
    /\ UNCHANGED <<devVars, heapVars, thrVars, fdVars, ownerVars, rpc, rcall,
                   rres, out, rlen, rwidth, rheight, workerVars, mObjectLock>>

\* line 170: the converter's argument mFrameWidth is read from the object
GetCurrentPreviewFrame_LoadWidth ==
    /\ ProcessAlive
    /\ rpc = "gp_convert" /\ rwidth = <<>>
    /\ rwidth' = <<mFrameWidth>>
    /\ UNCHANGED <<devVars, heapVars, thrVars, fdVars, ownerVars, rpc, rcall,
                   rres, out, rsrc, rlen, rheight, workerVars, mObjectLock>>

\* line 170: the converter's argument mFrameHeight is read from the object
GetCurrentPreviewFrame_LoadHeight ==
    /\ ProcessAlive
    /\ rpc = "gp_convert" /\ rheight = <<>>
    /\ rheight' = <<mFrameHeight>>
    /\ UNCHANGED <<devVars, heapVars, thrVars, fdVars, ownerVars, rpc, rcall,
                   rres, out, rsrc, rlen, rwidth, workerVars, mObjectLock>>

\* lines 170-171: YV12ToRGB32(mCurrentFrame, buffer, mFrameWidth,
\* mFrameHeight); return NO_ERROR
GetCurrentPreviewFrame_Convert ==
    /\ ProcessAlive
    /\ rpc = "gp_convert" /\ Len(rsrc) = 2 /\ rwidth # <<>> /\ rheight # <<>>
    /\ \/ /\ ~MemcpyMustFault(rsrc[2])
          /\ out' = YV12ToRGB32(Memcpy(rsrc[2],
                                       YV12BytesRead(rwidth[1], rheight[1])),
                                rwidth[1], rheight[1])
          /\ rres' = NO_ERROR /\ rpc' = "ret" /\ mObjectLock' = "free"
       \/ /\ MemcpyMayFault(rsrc[2], YV12BytesRead(rwidth[1], rheight[1]))
          /\ rpc' = "segv"
          /\ UNCHANGED <<out, rres, mObjectLock>>
    /\ rsrc' = <<>> /\ rwidth' = <<>> /\ rheight' = <<>>
    /\ UNCHANGED <<devVars, heapVars, thrVars, fdVars, ownerVars, rcall, rlen,
                   workerVars>>

\* the caller takes the result and hands in a cleared buffer next time
ReaderIdle ==
    /\ ProcessAlive
    /\ rpc = "ret"
    /\ rpc' = "idle" /\ rcall' = "none" /\ rres' = NO_ERROR /\ out' = <<>>
    /\ UNCHANGED <<devVars, heapVars, thrVars, fdVars, ownerVars, rsrc, rlen,
                   rwidth, rheight, workerVars, mObjectLock>>

(***************************************************************************)
(* ~EmulatedCameraDevice(), lines 44-49, called by the owner when no call  *)
(* on the object is in progress.  No call is made on the object after it.  *)
(***************************************************************************)
Destructor ==
    /\ ProcessAlive
    /\ opc = "idle" /\ rpc = "idle"
    /\ IF mCurrentFrame # NULL
       THEN /\ live' = live \ {mCurrentFrame}
            /\ content' = [b \in BufIds |->
                             IF b = mCurrentFrame THEN <<>> ELSE content[b]]
       ELSE UNCHANGED <<live, content>>
    /\ opc' = "destroyed"
    /\ UNCHANGED <<devVars, nWorkerObjs, thrVars, fdVars, ocall, oargs, ores,
                   res, pre, stRes, readerVars, workerVars, mObjectLock>>

(***************************************************************************)
(* startWorkerThread(), lines 183-197.  startThread() is Thread::run():    *)
(* it refuses when the thread is running, else it resets the thread state  *)
(* and spawns the thread, which begins with readyToRun().                  *)
(***************************************************************************)
StartWorkerThread ==
    /\ ProcessAlive
    /\ OwnerEnter("startWorkerThread", <<>>)
    /\ IF ~isInitialized
       THEN /\ OwnerReturn(EINVAL)
            /\ UNCHANGED <<mRunning, mExitPending, mStatus, wpc, stRes>>
       ELSE IF mRunning
            THEN /\ OwnerReturn(INVALID_OPERATION)
                 /\ UNCHANGED <<mRunning, mExitPending, mStatus, wpc, stRes>>
            ELSE /\ mStatus' = NO_ERROR /\ mExitPending' = FALSE
                 /\ mRunning' = TRUE /\ wpc' = "rtr_pipe"
                 /\ stRes' = <<>>
                 /\ OwnerReturn(NO_ERROR)
    /\ UNCHANGED <<devVars, heapVars, mThreadControl, mControlFD, fdVars, res,
                   readerVars, device, thread_fds, selFd, selTimeout, selRes,
                   loopResult, selLocals,
                   mObjectLock>>

(***************************************************************************)
(* stopWorkerThread(), lines 199-211, and WorkerThread::stopThread(),      *)
(* lines 243-281.                                                          *)
(***************************************************************************)
\* lines 203-208
StopWorkerThread_Enter ==
    /\ ProcessAlive
    /\ OwnerEnter("stopWorkerThread", <<>>)
    /\ IF ~isInitialized
       THEN OwnerReturn(EINVAL)
       ELSE opc' = "stt_write" /\ UNCHANGED ores
    /\ UNCHANGED <<devVars, heapVars, thrVars, fdVars, res, stRes, readerVars,
                   workerVars, mObjectLock>>

\* close(fd) of one end of pipe p: the pipe and what it holds go away with
\* its last open end
PipeAfterClose(p, otherEnds) ==
    IF p \in otherEnds THEN pipeBuf ELSE [pipeBuf EXCEPT ![p] = <<>>]

\* lines 247-253 and 271-278: test the write end, send THREAD_STOP
StopThread_Write ==
    /\ ProcessAlive
    /\ opc = "stt_write"
    /\ IF mThreadControl >= 0
       THEN \E wrote \in BOOLEAN :
              IF wrote /\ mThreadControl \in openW
              THEN /\ Len(pipeBuf[mThreadControl]) < MaxPipeMsgs
                   /\ pipeBuf' = [pipeBuf EXCEPT ![mThreadControl] =
                                     Append(@, THREAD_STOP)]
                   /\ opc' = "stt_exit"
                   /\ UNCHANGED <<res, stRes>>
              ELSE /\ res' = EPIPE /\ stRes' = <<EPIPE>>
                   /\ opc' = "stt_ret"
                   /\ UNCHANGED pipeBuf
       ELSE /\ res' = EINVAL /\ stRes' = <<EINVAL>>
            /\ opc' = "stt_ret"
            /\ UNCHANGED pipeBuf
    /\ UNCHANGED <<devVars, heapVars, thrVars, openW, openR, ocall, oargs,
                   ores, pre, readerVars, workerVars, mObjectLock>>

\* mutant of StopThread_RequestExit: the exit is requested but not waited
\* for (requestExit() in place of requestExitAndWait())
StopThread_RequestExit_NoWait ==
    /\ ProcessAlive
    /\ opc = "stt_exit"
    /\ mExitPending' = TRUE
    /\ res' = NO_ERROR
    /\ opc' = "stt_closectl"
    /\ UNCHANGED <<devVars, heapVars, mThreadControl, mControlFD, mRunning,
                   mStatus, fdVars, ocall, oargs, ores, pre, stRes,
                   readerVars, workerVars, mObjectLock>>

\* line 255, requestExitAndWait(): ask the thread to exit
StopThread_RequestExit ==
    /\ ProcessAlive
    /\ opc = "stt_exit"
    /\ mExitPending' = TRUE
    /\ opc' = "stt_join"
    /\ UNCHANGED <<devVars, heapVars, mThreadControl, mControlFD, mRunning,
                   mStatus, fdVars, ocall, oargs, ores, res, pre, stRes,
                   readerVars, workerVars, mObjectLock>>

\* the thread requestExitAndWait() waits for has stopped running
JoinDone == ~mRunning

\* mutant of StopThread_Join: the status is taken without waiting for the
\* thread to exit
StopThread_Join_NoWait ==
    /\ ProcessAlive
    /\ opc = "stt_join"
    /\ res' = mStatus
    /\ mExitPending' = FALSE
    /\ IF mStatus = NO_ERROR
       THEN opc' = "stt_closectl" /\ UNCHANGED stRes
       ELSE opc' = "stt_ret" /\ stRes' = <<mStatus>>
    /\ UNCHANGED <<devVars, heapVars, mThreadControl, mControlFD, mRunning,
                   mStatus, fdVars, ocall, oargs, ores, pre, readerVars,
                   workerVars, mObjectLock>>

\* lines 255-256 and 267-270, requestExitAndWait(): wait until the thread
\* has exited, return its status
StopThread_Join ==
    /\ ProcessAlive
    /\ opc = "stt_join"
    /\ JoinDone
    /\ res' = mStatus
    /\ mExitPending' = FALSE
    /\ IF mStatus = NO_ERROR
       THEN opc' = "stt_closectl" /\ UNCHANGED stRes
       ELSE opc' = "stt_ret" /\ stRes' = <<mStatus>>
    /\ UNCHANGED <<devVars, heapVars, mThreadControl, mControlFD, mRunning,
                   mStatus, fdVars, ocall, oargs, ores, pre, readerVars,
                   workerVars, mObjectLock>>

\* mutant of StopThread_CloseControl: the write end is closed but
\* mThreadControl is not reset to -1
StopThread_CloseControl_NotInvalidated ==
    /\ ProcessAlive
    /\ opc = "stt_closectl"
    /\ IF mThreadControl >= 0
       THEN /\ openW' = openW \ {mThreadControl}
            /\ pipeBuf' = PipeAfterClose(mThreadControl, openR)
       ELSE UNCHANGED <<openW, pipeBuf>>
    /\ opc' = "stt_closefd"
    /\ UNCHANGED <<devVars, heapVars, mThreadControl, mControlFD, mRunning,
                   mExitPending, mStatus, openR, ocall, oargs, ores, res, pre,
                   stRes, readerVars, workerVars, mObjectLock>>

\* lines 258-261: close the write end
StopThread_CloseControl ==
    /\ ProcessAlive
    /\ opc = "stt_closectl"
    /\ IF mThreadControl >= 0
       THEN /\ openW' = openW \ {mThreadControl}
            /\ pipeBuf' = PipeAfterClose(mThreadControl, openR)
            /\ mThreadControl' = FD_CLOSED
       ELSE UNCHANGED <<openW, pipeBuf, mThreadControl>>
    /\ opc' = "stt_closefd"
    /\ UNCHANGED <<devVars, heapVars, mControlFD, mRunning, mExitPending,
                   mStatus, openR, ocall, oargs, ores, res, pre, stRes,
                   readerVars, workerVars, mObjectLock>>

\* mutant of StopThread_CloseFD: the read end is closed but mControlFD is
\* not reset to -1
StopThread_CloseFD_NotInvalidated ==
    /\ ProcessAlive
    /\ opc = "stt_closefd"
    /\ IF mControlFD >= 0
       THEN /\ openR' = openR \ {mControlFD}
            /\ pipeBuf' = PipeAfterClose(mControlFD, openW)
       ELSE UNCHANGED <<openR, pipeBuf>>
    /\ stRes' = <<res>>
    /\ opc' = "stt_ret"
    /\ UNCHANGED <<devVars, heapVars, mThreadControl, mControlFD, mRunning,
                   mExitPending, mStatus, openW, ocall, oargs, ores, res, pre,
                   readerVars, workerVars, mObjectLock>>

\* lines 262-266: close the read end
StopThread_CloseFD ==
    /\ ProcessAlive
    /\ opc = "stt_closefd"
    /\ IF mControlFD >= 0
       THEN /\ openR' = openR \ {mControlFD}
            /\ pipeBuf' = PipeAfterClose(mControlFD, openW)
            /\ mControlFD' = FD_CLOSED
       ELSE UNCHANGED <<openR, pipeBuf, mControlFD>>
    /\ stRes' = <<res>>
    /\ opc' = "stt_ret"
    /\ UNCHANGED <<devVars, heapVars, mThreadControl, mRunning, mExitPending,
                   mStatus, openW, ocall, oargs, ores, res, pre, readerVars,
                   workerVars, mObjectLock>>

\* lines 208-210: what stopWorkerThread() returns once stopThread() returned threadRes
StopWorkerThreadResult(threadRes) == NO_ERROR

StopWorkerThread_Return ==
    /\ ProcessAlive
    /\ opc = "stt_ret"
    /\ OwnerReturn(StopWorkerThreadResult(stRes[1]))
    /\ UNCHANGED <<devVars, heapVars, thrVars, fdVars, ocall, oargs, res, pre,
                   stRes, readerVars, workerVars, mObjectLock>>

(***************************************************************************)
(* Worker thread.  Thread::_threadLoop calls readyToRun() once, then       *)
(* threadLoop() (which calls the device's inWorkerThread()) until it       *)
(* returns false or an exit was requested.                                 *)
(***************************************************************************)
\* lines 230-231 and 236-240: pipe(thread_fds)
ReadyToRun_Pipe ==
    /\ ProcessAlive
    /\ wpc = "rtr_pipe"
    /\ \E created \in BOOLEAN :
         IF created /\ FreePipes # {}
         THEN /\ thread_fds' = NewPipe
              /\ openW' = openW \cup {NewPipe}
              /\ openR' = openR \cup {NewPipe}
              /\ wpc' = "rtr_control"
              /\ UNCHANGED <<mStatus, loopResult>>
         ELSE /\ mStatus' = EMFILE
              /\ loopResult' = FALSE
              /\ wpc' = "thr_check"
              /\ UNCHANGED <<thread_fds, openW, openR>>
    /\ UNCHANGED <<devVars, heapVars, mThreadControl, mControlFD, mRunning,
                   mExitPending, pipeBuf, ownerVars, readerVars, device, selFd,
                   selTimeout, selRes, selLocals,
                   mObjectLock>>

\* line 232: mThreadControl = thread_fds[1]
ReadyToRun_SetControl ==
    /\ ProcessAlive
    /\ wpc = "rtr_control"
    /\ mThreadControl' = thread_fds
    /\ wpc' = "rtr_fd"
    /\ UNCHANGED <<devVars, heapVars, mControlFD, mRunning, mExitPending,
                   mStatus, fdVars, ownerVars, readerVars, device, thread_fds,
                   selFd, selTimeout, selRes, loopResult, selLocals,
                   mObjectLock>>

\* lines 233-235: mControlFD = thread_fds[0]; return NO_ERROR
ReadyToRun_SetFD ==
    /\ ProcessAlive
    /\ wpc = "rtr_fd"
    /\ mControlFD' = thread_fds
    /\ mStatus' = NO_ERROR
    /\ thread_fds' = FD_CLOSED
    /\ wpc' = "thr_first"
    /\ UNCHANGED <<devVars, heapVars, mThreadControl, mRunning, mExitPending,
                   fdVars, ownerVars, readerVars, device, selFd, selTimeout,
                   selRes, loopResult, selLocals,
                   mObjectLock>>

\* Thread::_threadLoop after readyToRun(): run the loop body unless an exit
\* is already pending
Thread_First ==
    /\ ProcessAlive
    /\ wpc = "thr_first"
    /\ IF mExitPending
       THEN wpc' = "thr_check" /\ loopResult' = FALSE
       ELSE wpc' = "body" /\ UNCHANGED loopResult
    /\ UNCHANGED <<devVars, heapVars, thrVars, fdVars, ownerVars, readerVars,
                   device, thread_fds, selFd, selTimeout, selRes, selLocals,
                   mObjectLock>>

\* mutant of InWorkerThread_Base: the base class loop body returns true
InWorkerThread_Base_ReturnsTrue ==
    /\ ProcessAlive
    /\ wpc = "body" /\ device = "base"
    /\ loopResult' = TRUE
    /\ wpc' = "thr_check"
    /\ UNCHANGED <<devVars, heapVars, thrVars, fdVars, ownerVars, readerVars,
                   device, thread_fds, selFd, selTimeout, selRes, selLocals,
                   mObjectLock>>

\* lines 213-217: the base class loop body
InWorkerThread_Base ==
    /\ ProcessAlive
    /\ wpc = "body" /\ device = "base"
    /\ loopResult' = FALSE
    /\ wpc' = "thr_check"
    /\ UNCHANGED <<devVars, heapVars, thrVars, fdVars, ownerVars, readerVars,
                   device, thread_fds, selFd, selTimeout, selRes, selLocals,
                   mObjectLock>>

\* a derived device's loop body begins with Select(fd, timeout)
InWorkerThread_Derived ==
    /\ ProcessAlive
    /\ wpc = "body" /\ device = "derived"
    /\ \E fd \in {FD_CLOSED, DATA_FD}, timeout \in {0, SOME_TIMEOUT} :
         selFd' = fd /\ selTimeout' = timeout
    /\ wpc' = "sel_wait"
    /\ UNCHANGED <<devVars, heapVars, thrVars, fdVars, ownerVars, readerVars,
                   device, thread_fds, selRes, loopResult, selLocals,
                   mObjectLock>>

\* the control endpoint is readable
ControlReady == mControlFD \in openR /\ pipeBuf[mControlFD] # <<>>

\* lines 291-295: the descriptors Select() puts into fds
WatchedFds == {"control"} \cup (IF selFd >= 0 THEN {"fd"} ELSE {})

\* the descriptors select() finds readable; dataReady: fd is readable
ReadyFds(dataReady) ==
    (IF ControlReady THEN {"control"} ELSE {})
    \cup (IF selFd >= 0 /\ dataReady THEN {"fd"} ELSE {})

\* line 301: the value of select(): -1 on failure, else the number of
\* descriptors that are ready (0: the timeout expired)
SelectReturns(failed, dataReady) ==
    IF failed THEN -1 ELSE Cardinality(ReadyFds(dataReady))

\* line 301: fds after select(): the ready descriptors, or on failure the
\* set as it was passed
SelectFds(failed, dataReady) ==
    IF failed THEN WatchedFds ELSE ReadyFds(dataReady)

\* lines 302-309 and 326-331: what Select() makes of the result of select();
\* "CONTROL" stands for going on to read the control message
SelectOutcome(r, set) ==
    IF r < 0 THEN "ERROR"
    ELSE IF r = 0 THEN "TIMEOUT"
    ELSE IF "control" \in set THEN "CONTROL"
    ELSE "READY"

\* lines 289-309 and 326-331
Select_Wait ==
    /\ ProcessAlive
    /\ wpc = "sel_wait"
    /\ \E failed \in BOOLEAN, dataReady \in BOOLEAN :
         \* select() without a timeout stays blocked while nothing is ready
         /\ failed \/ ReadyFds(dataReady) # {} \/ selTimeout # 0
         /\ selectRet' = <<SelectReturns(failed, dataReady)>>
         /\ fds' = SelectFds(failed, dataReady)
         /\ LET outcome == SelectOutcome(SelectReturns(failed, dataReady),
                                         SelectFds(failed, dataReady))
            IN  IF outcome = "CONTROL"
                THEN wpc' = "sel_read" /\ UNCHANGED selRes
                ELSE wpc' = "produce" /\ selRes' = outcome
    /\ UNCHANGED <<devVars, heapVars, thrVars, fdVars, ownerVars, readerVars,
                   device, thread_fds, selFd, selTimeout, loopResult, readRet,
                   readMsg, mObjectLock>>

\* sizeof(ControlMessage)
MSG_SIZE == 4

\* line 312: the value of read(): sizeof(msg) when a whole message was
\* read, -1 when the read failed
ReadReturns(full) == IF full /\ ControlReady THEN MSG_SIZE ELSE -1

\* mutant of ControlMessageResult: the value of the message is not looked at
ControlMessageResult_AnyValue(msg) == "EXIT_THREAD"

\* lines 319-325: the result for a control message that was read in full
ControlMessageResult(msg) == IF msg = THREAD_STOP THEN "EXIT_THREAD" ELSE "ERROR"

\* lines 313-325: what Select() makes of the result of read()
ReadOutcome(r, m) ==
    IF r # MSG_SIZE THEN "ERROR" ELSE ControlMessageResult(m[1])

\* lines 311-325: read one control message
Select_Read ==
    /\ ProcessAlive
    /\ wpc = "sel_read"
    /\ \E full \in BOOLEAN :
         /\ readRet' = <<ReadReturns(full)>>
         /\ IF ReadReturns(full) = MSG_SIZE
            THEN /\ readMsg' = <<Head(pipeBuf[mControlFD])>>
                 /\ pipeBuf' = [pipeBuf EXCEPT ![mControlFD] = Tail(@)]
                 /\ selRes' = ReadOutcome(MSG_SIZE, <<Head(pipeBuf[mControlFD])>>)
            ELSE /\ selRes' = ReadOutcome(-1, <<>>)
                 /\ UNCHANGED <<readMsg, pipeBuf>>
    /\ wpc' = "produce"
    /\ UNCHANGED <<devVars, heapVars, thrVars, openW, openR, ownerVars,
                   readerVars, device, thread_fds, selFd, selTimeout,
                   loopResult, selectRet, fds, mObjectLock>>

\* the rest of a derived loop body: stop on EXIT_THREAD or ERROR, else
\* write the next frame into the framebuffer and say whether to go on
InWorkerThread_Produce ==
    /\ ProcessAlive
    /\ wpc = "produce"
    /\ IF selRes \in {"EXIT_THREAD", "ERROR"}
       THEN /\ loopResult' = FALSE
            /\ UNCHANGED content
       ELSE /\ \E stamp \in 1..MaxStamp :
                 content' = [b \in BufIds |->
                               IF b = mCurrentFrame /\ b \in live
                               THEN Fill(Len(content[b]), stamp)
                               ELSE content[b]]
            /\ \E continue \in BOOLEAN : loopResult' = continue
    /\ wpc' = "thr_check"
    /\ selectRet' = <<>> /\ fds' = {} /\ readRet' = <<>> /\ readMsg' = <<>>
    /\ UNCHANGED <<devVars, live, nWorkerObjs, thrVars, fdVars, ownerVars,
                   readerVars, device, thread_fds, selFd, selTimeout, selRes,
                   mObjectLock>>

\* Thread::_threadLoop after the loop body: exit when the body returned
\* false or an exit is pending, else run the body again
Thread_Check ==
    /\ ProcessAlive
    /\ wpc = "thr_check"
    /\ IF loopResult = FALSE \/ mExitPending
       THEN /\ mExitPending' = TRUE /\ mRunning' = FALSE
            /\ wpc' = "none"
       ELSE /\ wpc' = "body"
            /\ UNCHANGED <<mExitPending, mRunning>>
    /\ selRes' = "NONE" /\ selFd' = FD_CLOSED /\ selTimeout' = 0
    /\ loopResult' = FALSE
    /\ UNCHANGED <<devVars, heapVars, mThreadControl, mControlFD, mStatus,
                   fdVars, ownerVars, readerVars, device, thread_fds,
                   selLocals,
                   mObjectLock>>

(***************************************************************************)
(* Specifications.                                                         *)
(*                                                                         *)
(* Spec is the whole program: owner, reader and worker.  Its state space   *)
(* is the product of the capture side and the thread side, so properties   *)
(* are verified on its two halves, which share the owner:                  *)
(*   SpecCapture  the owner's Initialize / startCapturing / stopCapturing  *)
(*                against the reader;                                      *)
(*   SpecThread   the owner's Initialize / startWorkerThread /             *)
(*                stopWorkerThread / stopCapturing against the worker,     *)
(*                started either from the constructed device or from a     *)
(*                device that SpecCapture has brought to capturing;        *)
(*   SpecThreadFair  the thread side with a worker that is scheduled;      *)
(*   SpecSelect   the thread side with control messages other than         *)
(*                THREAD_STOP injected into the pipe;                      *)
(*   SpecFrameInfo  the owner's capture calls alone, with a frame size     *)
(*                whose byte count overflows an int.                       *)
(***************************************************************************)
StartCapturingStep ==
    \/ \E width \in Widths, height \in Heights, pix_fmt \in PixFmts :
         StartCapturing_Validate(width, height, pix_fmt)
    \/ StartCapturing_Alloc
    \/ StartCapturing_StartDevice
    \/ StartCapturing_Delete
    \/ StartCapturing_Null

StopCapturingStep ==
    \/ StopCapturing_StopDevice
    \/ StopCapturing_Delete
    \/ StopCapturing_Null

WorkerControlStep ==
    \/ StartWorkerThread
    \/ StopWorkerThread_Enter
    \/ StopThread_Write
    \/ StopThread_RequestExit
    \/ StopThread_Join
    \/ StopThread_CloseControl
    \/ StopThread_CloseFD
    \/ StopWorkerThread_Return

ReaderStep ==
    \/ GetCurrentFrame_Check
    \/ GetCurrentFrame_CheckFrame
    \/ GetCurrentFrame_LoadFrame
    \/ GetCurrentFrame_LoadSize
    \/ GetCurrentFrame_Copy
    \/ GetCurrentPreviewFrame_Check
    \/ GetCurrentPreviewFrame_CheckFrame
    \/ GetCurrentPreviewFrame_Format
    \/ GetCurrentPreviewFrame_LoadFrame
    \/ GetCurrentPreviewFrame_LoadWidth
    \/ GetCurrentPreviewFrame_LoadHeight
    \/ GetCurrentPreviewFrame_Convert
    \/ ReaderIdle

WorkerStep ==
    \/ ReadyToRun_Pipe
    \/ ReadyToRun_SetControl
    \/ ReadyToRun_SetFD
    \/ Thread_First
    \/ InWorkerThread_Base
    \/ InWorkerThread_Derived
    \/ Select_Wait
    \/ Select_Read
    \/ InWorkerThread_Produce
    \/ Thread_Check

Next ==
    \/ Initialize
    \/ StartCapturingStep
    \/ StopCapturingStep
    \/ WorkerControlStep
    \/ OwnerIdle
    \/ Destructor
    \/ ReaderStep
    \/ WorkerStep

Spec == Init /\ [][Next]_vars

NextCapture ==
    \/ Initialize
    \/ StartCapturingStep
    \/ StopCapturingStep
    \/ OwnerIdle
    \/ Destructor
    \/ ReaderStep

SpecCapture == Init /\ [][NextCapture]_vars

\* the device after Initialize() and a successful
\* startCapturing(width, height, V4L2_PIX_FMT_YVU420) on the fresh device
CapturingAfterStart(width, height) ==
    /\ mState = "ECDS_CAPTURING"
    /\ mWorkerThread = 1 /\ nWorkerObjs = 1
    /\ mFrameWidth = width /\ mFrameHeight = height
    /\ mPixelFormat = V4L2_PIX_FMT_YVU420
    /\ mTotalPixels = width * height
    /\ mFrameBufferSize = FrameBufferSize(width, height)
    /\ mCurrentFrame = 1
    /\ mFrameU = width * height
    /\ mFrameV = width * height + DivTrunc(width * height, 4)
    /\ live = {1}
    /\ content = [b \in BufIds |->
                    IF b = 1 THEN Fill(FrameBufferSize(width, height), INDETERMINATE)
                    ELSE <<>>]

\* the object was built in memory filled with one value: the fields the
\* constructor leaves unset all hold it.  (The thread side reads none of
\* these fields.)
OneFill ==
    \E fill \in IndeterminateInts :
        /\ mFrameWidth = fill /\ mFrameHeight = fill /\ mPixelFormat = fill
        /\ mTotalPixels = fill /\ mFrameBufferSize = fill
        /\ mFrameU = fill /\ mFrameV = fill

\* the constructed device, built in memory filled with one value
InitWorker == Init /\ OneFill

InitThread ==
    /\ NothingRunning
    /\ \/ Constructed /\ OneFill
       \/ \E width \in Widths, height \in Heights :
            CapturingAfterStart(width, height)
    /\ pre = DeviceSnapshot

NextThread ==
    \/ Initialize
    \/ StopCapturingStep
    \/ WorkerControlStep
    \/ OwnerIdle
    \/ Destructor
    \/ WorkerStep

SpecThread == InitThread /\ [][NextThread]_vars

\* SpecThreadFair: the owner's Initialize / startWorkerThread /
\* stopWorkerThread against a worker thread that the scheduler does not
\* starve: a step the worker can take is taken eventually
NextWorker ==
    \/ Initialize
    \/ WorkerControlStep
    \/ OwnerIdle
    \/ WorkerStep

\* the steps the worker takes when it is given the processor: all of its
\* steps but the return of select()
WorkerRuns ==
    \/ ReadyToRun_Pipe
    \/ ReadyToRun_SetControl
    \/ ReadyToRun_SetFD
    \/ Thread_First
    \/ InWorkerThread_Base
    \/ InWorkerThread_Derived
    \/ Select_Read
    \/ InWorkerThread_Produce
    \/ Thread_Check

\* select() returns because the control endpoint is readable or the
\* timeout it was given expires; with neither it can stay blocked for ever
\* (a failure of select() or data on the caller's descriptor may come, but
\* nothing makes them come)
Select_Wakes == Select_Wait /\ (ControlReady \/ selTimeout # 0)

SpecThreadFair ==
    InitWorker /\ [][NextWorker]_vars /\ WF_vars(WorkerRuns) /\ WF_vars(Select_Wakes)

\* fault injection: something other than stopThread() writes a control
\* message that is not THREAD_STOP to the write endpoint
InjectControlMessage ==
    /\ ProcessAlive
    /\ mThreadControl >= 0 /\ mThreadControl \in openW
    /\ Len(pipeBuf[mThreadControl]) < MaxPipeMsgs
    /\ pipeBuf' = [pipeBuf EXCEPT ![mThreadControl] = Append(@, MSG_OTHER)]
    /\ UNCHANGED <<devVars, heapVars, thrVars, openW, openR, ownerVars,
                   readerVars, workerVars, mObjectLock>>

\* SpecSelect: the owner's Initialize / startWorkerThread / stopWorkerThread
\* against the worker of a derived device, whose loop body calls Select(),
\* with control messages other than THREAD_STOP injected into the pipe
InitSelect == InitWorker /\ device = "derived"

NextSelect ==
    \/ Initialize
    \/ WorkerControlStep
    \/ OwnerIdle
    \/ ReadyToRun_Pipe
    \/ ReadyToRun_SetControl
    \/ ReadyToRun_SetFD
    \/ Thread_First
    \/ InWorkerThread_Derived
    \/ Select_Wait
    \/ Select_Read
    \/ InWorkerThread_Produce
    \/ Thread_Check
    \/ InjectControlMessage

SpecSelect == InitSelect /\ [][NextSelect]_vars

\* SpecFrameInfo: the owner's Initialize / startCapturing / stopCapturing
\* alone, with startCapturing() also given a frame size whose byte count
\* overflows an int
FrameInfoWidths == Widths \cup {WrapWidth}

StartCapturingAnyWidthStep ==
    \/ \E width \in FrameInfoWidths, height \in Heights, pix_fmt \in PixFmts :
         StartCapturing_Validate(width, height, pix_fmt)
    \/ StartCapturing_Alloc
    \/ StartCapturing_StartDevice
    \/ StartCapturing_Delete
    \/ StartCapturing_Null

NextFrameInfo ==
    \/ Initialize
    \/ StartCapturingAnyWidthStep
    \/ StopCapturingStep
    \/ OwnerIdle
    \/ Destructor

SpecFrameInfo == Init /\ [][NextFrameInfo]_vars

(***************************************************************************)
(* Properties.                                                             *)
(***************************************************************************)
\* the owner has just returned from `call`
OwnerReturned(call) == opc = "ret" /\ ocall = call

\* the reader is between its check under the lock and its copy
ReaderCopying == rpc \in {"gf_copy", "gp_format", "gp_convert"}

\* C1: a read never copies from a frame buffer that has been freed or is
\* being replaced: whenever the reader is past its check under the lock and
\* about to copy, the buffer pointer refers to a block that is allocated.
C1_ReadNeverFromFreedBuffer == ReaderCopying => mCurrentFrame \in live

\* C3: startCapturing(), stopCapturing() and startWorkerThread() called on
\* a device still in the constructed state return the invalid-state error
\* and leave the device and the heap as they were (at every point of the
\* call no block is allocated or freed), and getCurrentFrame() on such a
\* device returns the invalid-state error and copies nothing.
C3_NothingBeforeInitialize ==
    /\ (/\ ocall \in {"startCapturing", "stopCapturing", "startWorkerThread"}
        /\ pre.state = "ECDS_CONSTRUCTED")
       => /\ live = pre.live
          /\ opc = "ret" => (ores = EINVAL /\ DeviceSnapshot = pre)
    /\ (rpc = "ret" /\ rcall = "getCurrentFrame" /\ mState = "ECDS_CONSTRUCTED")
       => (rres = EINVAL /\ out = <<>>)

\* C8: when the start hook failed inside startCapturing(), on return the
\* block that call allocated is freed, the buffer pointer is null, the
\* hook's error is returned unchanged and the device is not capturing.
C8_FailedStartHookUnwinds ==
    (OwnerReturned("startCapturing") /\ res # NO_ERROR)
    => /\ live = pre.live
       /\ mCurrentFrame = NULL
       /\ ores = res
       /\ ~isCapturing

\* C9: a startCapturing() that fails by allocation failure or start hook
\* failure leaves the device as it was before the call (cached width,
\* height, format, pixel count, byte size, buffer pointer, capturing state).
C9_FailedStartLeavesState ==
    (/\ OwnerReturned("startCapturing")
     /\ oargs[3] = V4L2_PIX_FMT_YVU420
     /\ ores # NO_ERROR)
    => DeviceSnapshot = pre

\* C10 as stated: startCapturing() with an unsupported format returns
\* EINVAL, allocates nothing, calls no hook, changes no cached field, and
\* the device is not capturing afterwards.
C10_UnsupportedFormatNotCapturing ==
    (ocall = "startCapturing" /\ oargs[3] # V4L2_PIX_FMT_YVU420)
    => /\ opc = "ret"
       /\ ores = EINVAL
       /\ DeviceSnapshot = pre
       /\ ~isCapturing

\* C10 amended: startCapturing() with an unsupported format returns EINVAL
\* at once (it never reaches the allocation or the hook), and leaves every
\* device field, the heap and the capturing state as they were: a device
\* that was not capturing is not capturing afterwards.
C10_UnsupportedFormatRejected ==
    (ocall = "startCapturing" /\ oargs[3] # V4L2_PIX_FMT_YVU420)
    => /\ opc = "ret"
       /\ ores = EINVAL
       /\ res = NO_ERROR
       /\ DeviceSnapshot = pre
       /\ (pre.state # "ECDS_CAPTURING" => ~isCapturing)

\* C10 witness: a call with the unknown format has returned EINVAL on a
\* device that was capturing with a live buffer, and the device still is
C10_Witness ==
    /\ OwnerReturned("startCapturing")
    /\ oargs[3] = PIX_FMT_OTHER
    /\ ores = EINVAL
    /\ pre.state = "ECDS_CAPTURING"
    /\ isCapturing /\ mCurrentFrame \in live

\* C6: stopWorkerThread() returns 0 only when the thread was stopped: when
\* stopThread() found the endpoints closed, could not write THREAD_STOP or
\* could not join, stopWorkerThread() returns a nonzero status.
C6_StopWorkerThreadReportsFailure ==
    (OwnerReturned("stopWorkerThread") /\ ores = NO_ERROR) => stRes = <<NO_ERROR>>

\* C7: getCurrentFrame() returns EINVAL and copies nothing when the device
\* is not capturing or the buffer pointer is null; otherwise it returns
\* NO_ERROR and the caller's buffer holds mFrameBufferSize bytes equal to
\* the content of the frame buffer.  Stated of the step that ends the call:
\* the call returns, and its result is the one the device's state calls for.
C7_GetCurrentFrameResult ==
    [][(/\ rcall' = "getCurrentFrame"
        /\ rpc \in {"idle", "gf_frame", "gf_copy"}
        /\ rpc' \notin {"gf_frame", "gf_copy"})
       => /\ rpc' = "ret"
          /\ IF FrameReadable
             THEN /\ rres' = NO_ERROR
                  /\ mCurrentFrame \in live
                  /\ Len(out') = mFrameBufferSize
                  /\ out' = content[mCurrentFrame]
             ELSE /\ rres' = EINVAL
                  /\ out' = out]_vars

\* the owner has written THREAD_STOP and stopThread() has not returned yet
StopRequested == opc \in {"stt_exit", "stt_join"}

\* C4 (wait result): a readiness wait that returns while a stop request is
\* outstanding does not return TIMEOUT or READY.
C4_StopWinsTheWait ==
    [][(StopRequested /\ wpc \in {"sel_wait", "sel_read"} /\ wpc' = "produce")
       => selRes' \notin {"TIMEOUT", "READY"}]_vars

\* C2: once stopThread() has returned NO_ERROR the worker is not running:
\* until the thread is started again it is at no point of its loop, so it
\* runs no iteration and writes no frame, and a stopCapturing() that is
\* freeing the buffer then has no worker writing it.
C2_StoppedWorkerIsGone == stRes = <<NO_ERROR>> => (wpc = "none" /\ ~mRunning)

\* C2 witness: the worker has written a frame, stopThread() has returned
\* NO_ERROR, and stopCapturing() is about to free that frame buffer
C2_Witness ==
    /\ stRes = <<NO_ERROR>>
    /\ opc = "st_delete"
    /\ mCurrentFrame \in live
    /\ \E i \in DOMAIN content[mCurrentFrame] :
         content[mCurrentFrame][i] # INDETERMINATE

\* C5: when stopThread() returns NO_ERROR both endpoints are closed and
\* invalidated; the owner closes them only after the join succeeded, with
\* the worker gone; when the join fails both endpoints stay open.
C5_EndpointsClosedAfterJoin ==
    /\ (opc = "stt_ret" /\ stRes = <<NO_ERROR>>)
       => (mThreadControl = FD_CLOSED /\ mControlFD = FD_CLOSED)
    /\ (opc \in {"stt_closectl", "stt_closefd"})
       => (res = NO_ERROR /\ ~mRunning /\ wpc = "none")
    /\ (opc \in {"stt_write", "stt_exit", "stt_join"})
       => (mThreadControl >= 0 => mThreadControl \in openW)
    /\ (opc = "stt_ret" /\ stRes = <<EMFILE>>)
       => /\ mThreadControl >= 0 /\ mThreadControl \in openW
          /\ mControlFD >= 0 /\ mControlFD \in openR

\* C5 witness: stopThread() has returned NO_ERROR after stopping a worker
\* that went through its readiness wait and read the stop message
C5_Witness ==
    /\ opc = "stt_ret" /\ stRes = <<NO_ERROR>>
    /\ device = "derived"
    /\ openW = {} /\ openR = {}

\* C11: stopCapturing() frees the frame buffer and clears the capturing
\* state only when the stop hook succeeded: it reaches the delete[] and the
\* pointer reset only with res = NO_ERROR, and then returns with the pointer
\* null, the block freed and the device not capturing; when the hook failed
\* it returns the hook's error at once with the buffer pointer, the heap and
\* the capturing state as they were on entry.
C11_StopOnlyOnHookSuccess ==
    ocall = "stopCapturing"
    => /\ opc \in {"st_delete", "st_null"} => (res = NO_ERROR /\ pre.frame # NULL)
       /\ res # NO_ERROR
          => /\ opc = "ret" /\ ores = res
             /\ mCurrentFrame = pre.frame /\ live = pre.live
             /\ mState = pre.state
       /\ (opc = "ret" /\ res = NO_ERROR)
          => /\ ores = NO_ERROR
             /\ mCurrentFrame = NULL /\ live = pre.live \ {pre.frame}
             /\ ~isCapturing

\* C11 witness: the stop hook has failed on a capturing device and
\* stopCapturing() has returned its error with the live buffer kept
C11_Witness ==
    /\ OwnerReturned("stopCapturing")
    /\ ores = EIO
    /\ isCapturing
    /\ mCurrentFrame # NULL /\ mCurrentFrame \in live

\* C12: Initialize() is idempotent: a call on a device that is already
\* initialized returns NO_ERROR and leaves the state, the worker thread
\* object and every other device field as they were, and over any sequence
\* of calls at most one WorkerThread object is constructed.
C12_InitializeIdempotent ==
    /\ nWorkerObjs <= 1
    /\ (/\ OwnerReturned("Initialize")
        /\ pre.worker # NULL /\ pre.state # "ECDS_CONSTRUCTED")
       => /\ ores = NO_ERROR
          /\ DeviceSnapshot = pre
          /\ mWorkerThread = 1

\* C12 witness: Initialize() has returned NO_ERROR on a device that was
\* already capturing, with the one WorkerThread object still in place
C12_Witness ==
    /\ OwnerReturned("Initialize")
    /\ pre.state = "ECDS_CAPTURING"
    /\ ores = NO_ERROR
    /\ isCapturing /\ mWorkerThread = 1 /\ nWorkerObjs = 1

\* the owner is inside, or has returned from, a startCapturing() with the
\* supported format that has computed the U and V panes
FrameInfoComputed ==
    /\ ocall = "startCapturing"
    /\ oargs[3] = V4L2_PIX_FMT_YVU420
    /\ \/ opc = "sc_start"
       \/ opc = "ret" /\ ores = NO_ERROR

\* C13: for every width and height of a startCapturing() call with the
\* supported format that got its buffer, in int arithmetic (products taken
\* modulo 2^32, division truncating): the cached byte size is
\* (width * height * 12) / 8 and is the size of the allocated block, the
\* cached pixel count is width * height, the U pane starts at offset
\* width * height and the V pane at offset
\* width * height + (width * height) / 4.
C13_FrameInfoArithmetic ==
    FrameInfoComputed
    => LET pixels == Int32Mul(oargs[1], oargs[2])
       IN  /\ mFrameBufferSize = DivTrunc(Int32Mul(pixels, 12), 8)
           /\ mCurrentFrame \in live
           /\ Len(content[mCurrentFrame]) = mFrameBufferSize
           /\ mTotalPixels = pixels
           /\ mFrameU = pixels
           /\ mFrameV = pixels + DivTrunc(pixels, 4)

\* C13 witness: startCapturing() has succeeded with a width and height
\* whose product times 12 exceeds the range of int, so that the cached byte
\* size is the wrapped one
C13_Witness ==
    /\ OwnerReturned("startCapturing")
    /\ ores = NO_ERROR
    /\ oargs[1] = WrapWidth /\ oargs[2] = 2
    /\ oargs[1] * oargs[2] > MaxInt32 \div 12
    /\ isCapturing
    /\ mFrameBufferSize < mTotalPixels

\* C14 as stated: in every reachable state, the states between the steps of
\* readyToRun() and of stopThread() included, the two endpoints are both
\* open or both closed.
C14_EndpointsNeverMixed == (mThreadControl >= 0) <=> (mControlFD >= 0)

\* readyToRun() is between its two assignments (lines 232 and 233)
InReadyToRunWindow == wpc = "rtr_fd"

\* stopThread() is between its two closes (lines 258-261 and 262-265)
InStopThreadWindow == opc = "stt_closefd"

\* C14 amended: outside the window between the two assignments of
\* readyToRun() and the window between the two closes of stopThread(), the
\* two endpoints are both closed, or both the open ends of one pipe; inside
\* the first window the write end is already set and open while the read
\* end is not yet that pipe's, inside the second the write end is already
\* closed and the worker has exited, and the two windows never overlap.
C14_EndpointsPairedOutsideWindows ==
    /\ (~InReadyToRunWindow /\ ~InStopThreadWindow)
       => /\ (mThreadControl >= 0) <=> (mControlFD >= 0)
          /\ mThreadControl >= 0
             => /\ mControlFD = mThreadControl
                /\ mThreadControl \in openW /\ mControlFD \in openR
    /\ InReadyToRunWindow
       => /\ mThreadControl >= 0 /\ mThreadControl \in openW
          /\ mControlFD # mThreadControl
    /\ InStopThreadWindow
       => (mThreadControl = FD_CLOSED /\ wpc = "none")
    /\ ~(InReadyToRunWindow /\ InStopThreadWindow)

\* C14 witness: readyToRun() has finished, the worker is in its readiness
\* wait and stopThread() has written its message: both ends of one pipe
\* are open
C14_Witness ==
    /\ wpc = "sel_wait" /\ opc = "stt_exit"
    /\ mThreadControl >= 0 /\ mControlFD = mThreadControl
    /\ mThreadControl \in openW /\ mControlFD \in openR

\* the worker is inside Select(): in the readiness wait or reading the
\* control message
WorkerInSelect == wpc \in {"sel_wait", "sel_read"}

\* C15: while the worker is inside its readiness wait or reading the
\* control message, the read endpoint it waits on is set and open (and so
\* is the write endpoint), and every step that closes an endpoint is taken
\* with the worker exited, in any interleaving of stopThread() with the
\* worker loop.
C15_NoCloseUnderWaitingWorker ==
    /\ [](WorkerInSelect
          => /\ mControlFD >= 0 /\ mControlFD \in openR
             /\ mThreadControl >= 0 /\ mThreadControl \in openW)
    /\ [][(openR' # openR \cup openR' \/ openW' # openW \cup openW')
           => (wpc = "none" /\ ~mRunning)]_vars

\* C15 witness: the worker is reading the control message from the open
\* read endpoint while stopThread() waits for it to exit
C15_Witness ==
    /\ wpc = "sel_read" /\ opc = "stt_join"
    /\ mControlFD \in openR
    /\ pipeBuf[mControlFD] # <<>>

\* C16: Select(fd, timeout) classifies the outcome of the wait.  When
\* select() fails the result is ERROR.  When select() returns 0, which it
\* does only at the expiry of a requested timeout with nothing ready, the
\* result is TIMEOUT, and TIMEOUT is never the result when no timeout was
\* requested.  When the control endpoint is ready it is read, whatever else
\* is ready: the result is EXIT_THREAD when, and only when, one whole
\* message was read and it is THREAD_STOP, exactly that message being taken
\* from the pipe; it is ERROR when the message has another value or the read
\* did not return the size of a message.  Otherwise the caller's descriptor
\* is ready and the result is READY.
C16_SelectClassification ==
    [][/\ (wpc = "sel_wait" /\ wpc' # wpc)
          => /\ selectRet' # <<>>
             /\ selectRet'[1] < 0
                => (wpc' = "produce" /\ selRes' = "ERROR")
             /\ selectRet'[1] = 0
                => /\ wpc' = "produce" /\ selRes' = "TIMEOUT"
                   /\ selTimeout # 0 /\ ~ControlReady
             /\ (selectRet'[1] > 0 /\ ControlReady)
                => (wpc' = "sel_read" /\ "control" \in fds')
             /\ (selectRet'[1] > 0 /\ ~ControlReady)
                => /\ wpc' = "produce" /\ selRes' = "READY"
                   /\ selFd >= 0 /\ "fd" \in fds'
             /\ wpc' = "produce"
                => /\ selRes' \in {"ERROR", "TIMEOUT", "READY"}
                   /\ selRes' = "ERROR" <=> selectRet'[1] < 0
                   /\ selRes' = "TIMEOUT" => selTimeout # 0
       /\ (wpc = "sel_read" /\ wpc' # wpc)
          => /\ wpc' = "produce"
             /\ readRet' # <<>>
             /\ readRet' = <<MSG_SIZE>>
                => /\ ControlReady
                   /\ readMsg' = <<Head(pipeBuf[mControlFD])>>
                   /\ pipeBuf' = [pipeBuf EXCEPT ![mControlFD] = Tail(@)]
             /\ readRet' # <<MSG_SIZE>> => pipeBuf' = pipeBuf
             /\ selRes' = "EXIT_THREAD"
                <=> (readRet' = <<MSG_SIZE>> /\ readMsg' = <<THREAD_STOP>>)
             /\ selRes' = "ERROR"
                <=> (readRet' # <<MSG_SIZE>> \/ readMsg' # <<THREAD_STOP>>)]_vars

\* C16 witness: Select() has read one whole THREAD_STOP and returned
\* EXIT_THREAD, and a message that is not THREAD_STOP, written after it, is
\* still in the pipe
C16_Witness ==
    /\ wpc = "produce"
    /\ selRes = "EXIT_THREAD"
    /\ readRet = <<MSG_SIZE>> /\ readMsg = <<THREAD_STOP>>
    /\ mControlFD \in openR
    /\ pipeBuf[mControlFD] = <<MSG_OTHER>>

\* C17: every THREAD_STOP that stopThread() wrote has been consumed by the
\* worker loop's wait by the time the worker has exited: when stopThread()
\* goes on to close the endpoints after the join, no written message is
\* left unread in the pipe.
C17_EveryStopConsumed ==
    opc = "stt_closectl"
    => (mThreadControl >= 0 => pipeBuf[mThreadControl] = <<>>)

\* the worker has exited: it is at no point of its loop and not running
WorkerExited == wpc = "none" /\ ~mRunning

\* C18: when the loop body has returned false the worker's next step is its
\* exit, whether or not a THREAD_STOP was sent, and it does exit; the base
\* class body reads no message, returns false, and a worker running it has
\* exited after that one iteration.
C18_FalseEndsTheThread ==
    /\ [][/\ (wpc = "thr_check" /\ loopResult = FALSE /\ wpc' # wpc)
             => (wpc' = "none" /\ ~mRunning')
          /\ (wpc = "body" /\ device = "base" /\ wpc' # wpc)
             => (wpc' = "thr_check" /\ loopResult' = FALSE /\ pipeBuf' = pipeBuf)]_vars
    /\ (wpc = "thr_check" /\ loopResult = FALSE) ~> WorkerExited
    /\ (wpc = "body" /\ device = "base") ~> WorkerExited

\* C18 witness: a worker running the base class body has exited although
\* stopThread() was not called since it was started: the endpoints are
\* still open and no message was written
C18_Witness ==
    /\ device = "base"
    /\ WorkerExited
    /\ stRes = <<>> /\ opc = "idle"
    /\ mThreadControl >= 0 /\ mThreadControl \in openW
    /\ pipeBuf[mThreadControl] = <<>>

\* C19: over any sequence of startWorkerThread(), natural worker
\* termination and stopWorkerThread(), at most one endpoint pair is open at
\* any time, and every open endpoint is the one its field refers to (none
\* is open and unreferenced) once readyToRun() has stored the pair.
C19_AtMostOnePairOpen ==
    /\ Cardinality(openW) <= 1 /\ Cardinality(openR) <= 1
    /\ wpc \notin {"rtr_control", "rtr_fd"}
       => (openW \subseteq {mThreadControl} /\ openR \subseteq {mControlFD})

\* C20: over any sequence of startCapturing() and stopCapturing() calls, at
\* most one frame buffer is allocated at any time and it is the block
\* mCurrentFrame points to: no allocated block is left without a pointer.
C20_AtMostOneLiveBuffer ==
    /\ Cardinality(live) <= 1
    /\ live \subseteq {mCurrentFrame}

====
